---- MODULE Spec2Model ----
(***************************************************************************)
(* JobPost Helper (src/main.py): the single-slot CV cache and its HTTP     *)
(* handlers, the CV semantic parser, the company analyzer and the          *)
(* cover-letter section splitter.                                          *)
(*                                                                         *)
(* Text that the code inspects character by character (file names, page    *)
(* titles, exception messages, model output lines) is a sequence of        *)
(* one-character strings.  Fixed message literals that the code only       *)
(* passes on are TLA+ strings.  Python's None is the empty tuple <<>> and  *)
(* a present value v of an optional is <<v>>.                              *)
(***************************************************************************)
EXTENDS Naturals, Sequences, FiniteSets, TLC

VARIABLES
    cv_data,        \* main.py:41  the slot: <<>> (None) or <<profile>>
    cv_file_path,   \* main.py:42  <<>> (None) or <<filename>>
    reading,        \* upload_cv coroutines suspended at "await file.read()"
    last_request,   \* history: the request that finished last, with what the
                    \* outside did during it
    response,       \* the HTTP response of that request
    output_dir,     \* main.py:37  the application directories under output/
    last_change,    \* history: the last request that changed the slot
    call,           \* harness: the pending call of a function under test
    ret             \* harness: <<>> before the call, <<result>> after it

vars == <<cv_data, cv_file_path, reading, last_request, response, output_dir,
          last_change, call, ret>>

(***************************************************************************)
(* Python str operations                                                   *)
(***************************************************************************)
None == <<>>

\* a raised exception, as the value of the operator that models the raising code
Raised(msg) == [raised |-> msg]

IsRaised(r) == "raised" \in DOMAIN r

\* the element of a singleton.  The({F(x) : x \in {e}}) is LET x == e IN F(x)
\* with e evaluated once, where it is bound
The(S) == CHOOSE x \in S : TRUE

Some(v) == <<v>>

NL == "\n"

Upper == <<"A","B","C","D","E","F","G","H","I","J","K","L","M",
           "N","O","P","Q","R","S","T","U","V","W","X","Y","Z">>

LowerOf == <<"a","b","c","d","e","f","g","h","i","j","k","l","m",
             "n","o","p","q","r","s","t","u","v","w","x","y","z">>

ToLower == [c \in {Upper[i] : i \in 1..Len(Upper)} |->
               LowerOf[CHOOSE i \in 1..Len(Upper) : Upper[i] = c]]

\* str.lower() of one character
LowerChar(c) == IF c \in DOMAIN ToLower THEN ToLower[c] ELSE c

\* str.lower()
Lower(s) == [i \in 1..Len(s) |-> LowerChar(s[i])]

\* s.startswith(p)
StartsWith(s, p) == Len(p) <= Len(s) /\ SubSeq(s, 1, Len(p)) = p

\* s.endswith(p)
EndsWith(s, p) ==
    Len(p) <= Len(s) /\ SubSeq(s, Len(s) - Len(p) + 1, Len(s)) = p

\* s.find(sub) as a 1-based index, 0 when sub does not occur (Python: -1)
Find(s, sub) ==
    IF \E i \in 1..(Len(s) + 1) :
          i + Len(sub) - 1 <= Len(s) /\ SubSeq(s, i, i + Len(sub) - 1) = sub
    THEN CHOOSE i \in 1..(Len(s) + 1) :
          /\ i + Len(sub) - 1 <= Len(s)
          /\ SubSeq(s, i, i + Len(sub) - 1) = sub
          /\ \A j \in 1..(i - 1) : SubSeq(s, j, j + Len(sub) - 1) # sub
    ELSE 0

\* sub in s
Contains(s, sub) ==
    \E i \in 1..(Len(s) - Len(sub) + 1) : SubSeq(s, i, i + Len(sub) - 1) = sub

IsSpace(c) == c \in {" ", NL, "\t"}

\* not s.strip(): s is empty or whitespace only
IsBlank(s) == \A i \in 1..Len(s) : IsSpace(s[i])

RECURSIVE LStrip(_)
LStrip(s) == IF s # <<>> /\ IsSpace(Head(s)) THEN LStrip(Tail(s)) ELSE s

RECURSIVE RStrip(_)
RStrip(s) ==
    IF s # <<>> /\ IsSpace(s[Len(s)])
    THEN RStrip(SubSeq(s, 1, Len(s) - 1))
    ELSE s

\* s.strip()
Strip(s) == RStrip(LStrip(s))

\* s.replace(sub, "") for a non-empty sub
RECURSIVE Remove(_, _)
Remove(s, sub) ==
    IF s = <<>> THEN <<>>
    ELSE IF StartsWith(s, sub) THEN Remove(SubSeq(s, Len(sub) + 1, Len(s)), sub)
    ELSE <<Head(s)>> \o Remove(Tail(s), sub)

\* "".join(parts)
RECURSIVE Flatten(_)
Flatten(parts) ==
    IF Len(parts) = 0 THEN <<>> ELSE parts[1] \o Flatten(Tail(parts))

\* s.split(sep) for a one-character sep: always at least one piece
RECURSIVE Split(_, _)
Split(s, sep) ==
    IF \A i \in 1..Len(s) : s[i] # sep THEN <<s>>
    ELSE LET k == CHOOSE i \in 1..Len(s) :
                     s[i] = sep /\ \A j \in 1..(i - 1) : s[j] # sep
         IN  <<SubSeq(s, 1, k - 1)>> \o Split(SubSeq(s, k + 1, Len(s)), sep)

\* sep.join(parts)
RECURSIVE Join(_, _)
Join(parts, sep) ==
    IF Len(parts) = 0 THEN <<>>
    ELSE IF Len(parts) = 1 THEN parts[1]
    ELSE parts[1] \o sep \o Join(Tail(parts), sep)

(***************************************************************************)
(* JSON values, as json.loads returns them (main.py:154).  An object is    *)
(* the sequence of its key/value pairs in document order, keys distinct;   *)
(* a number is the sequence of its digits.                                 *)
(***************************************************************************)
JNull == [t |-> "null"]

JStr(s) == [t |-> "str", s |-> s]

JNum(digits) == [t |-> "num", digits |-> digits]

JList(items) == [t |-> "list", items |-> items]

Pair(k, v) == [k |-> k, v |-> v]

JObj(pairs) == [t |-> "obj", pairs |-> pairs]

\* keys of the JSON contract (main.py:91-124) as the code spells them
K ==
    [name |-> <<"n","a","m","e">>,
     email |-> <<"e","m","a","i","l">>,
     phone |-> <<"p","h","o","n","e">>,
     location |-> <<"l","o","c","a","t","i","o","n">>,
     education |-> <<"e","d","u","c","a","t","i","o","n">>,
     degree |-> <<"d","e","g","r","e","e">>,
     institution |-> <<"i","n","s","t","i","t","u","t","i","o","n">>,
     year |-> <<"y","e","a","r">>,
     work_experience |-> <<"w","o","r","k","_","e","x","p","e","r","i","e","n","c","e">>,
     position |-> <<"p","o","s","i","t","i","o","n">>,
     company |-> <<"c","o","m","p","a","n","y">>,
     duration |-> <<"d","u","r","a","t","i","o","n">>,
     technical_skills |-> <<"t","e","c","h","n","i","c","a","l","_","s","k","i","l","l","s">>,
     projects |-> <<"p","r","o","j","e","c","t","s">>,
     description |-> <<"d","e","s","c","r","i","p","t","i","o","n">>,
     technologies |-> <<"t","e","c","h","n","o","l","o","g","i","e","s">>,
     languages |-> <<"l","a","n","g","u","a","g","e","s">>,
     soft_skills |-> <<"s","o","f","t","_","s","k","i","l","l","s">>]

s_None == <<"N","o","n","e">>
s_NotFound == <<"N","o","t"," ","f","o","u","n","d">>
s_Placeholder == <<"[","Y","o","u","r"," ","N","a","m","e","]">>
s_ErrorAnalyzingCV == <<"E","r","r","o","r"," ","a","n","a","l","y","z","i","n","g"," ","C","V">>
s_NAME == <<"N","A","M","E",":">>

\* the labels of analysis_text (main.py:158-177)
Label ==
    [Name |-> <<"N","a","m","e",":"," ">>,
     Email |-> <<"E","m","a","i","l",":"," ">>,
     Phone |-> <<"P","h","o","n","e",":"," ">>,
     Location |-> <<"L","o","c","a","t","i","o","n",":"," ">>,
     Education |-> <<"E","d","u","c","a","t","i","o","n",":">>,
     Work |-> <<"W","o","r","k"," ","E","x","p","e","r","i","e","n","c","e",":">>,
     Skills |-> <<"T","e","c","h","n","i","c","a","l"," ","S","k","i","l","l","s",":"," ">>,
     Projects |-> <<"P","r","o","j","e","c","t","s",":">>,
     Languages |-> <<"L","a","n","g","u","a","g","e","s",":"," ">>,
     Soft |-> <<"S","o","f","t"," ","S","k","i","l","l","s",":"," ">>]

s_at == <<" ","a","t"," ">>
s_Tech == <<" ","(","T","e","c","h",":"," ">>

HasKey(o, k) == \E i \in 1..Len(o.pairs) : o.pairs[i].k = k

\* dict.get(k, default)
Get(o, k, default) ==
    IF HasKey(o, k)
    THEN o.pairs[CHOOSE i \in 1..Len(o.pairs) : o.pairs[i].k = k].v
    ELSE default

\* repr(v)
RECURSIVE PyRepr(_)
PyRepr(v) ==
    CASE v.t = "null" -> s_None
      [] v.t = "num"  -> v.digits
      [] v.t = "str"  -> <<"'">> \o v.s \o <<"'">>
      [] v.t = "list" ->
            <<"[">> \o Join([i \in 1..Len(v.items) |-> PyRepr(v.items[i])], <<",", " ">>)
                    \o <<"]">>
      [] v.t = "obj"  ->
            <<"{">> \o Join([i \in 1..Len(v.pairs) |->
                               <<"'">> \o v.pairs[i].k \o <<"'", ":", " ">>
                                       \o PyRepr(v.pairs[i].v)], <<",", " ">>)
                    \o <<"}">>

\* str(v), what an f-string field {v} renders
PyStr(v) == IF v.t = "str" THEN v.s ELSE PyRepr(v)

\* iter(v) raises TypeError for None and numbers
Iterable(v) == v.t \in {"list", "str", "obj"}

\* the items a for loop or str.join sees: list items, characters, dict keys
Iter(v) ==
    CASE v.t = "list" -> v.items
      [] v.t = "str"  -> [i \in 1..Len(v.s) |-> JStr(<<v.s[i]>>)]
      [] v.t = "obj"  -> [i \in 1..Len(v.pairs) |-> JStr(v.pairs[i].k)]

\* ', '.join(v) raises TypeError unless v is an iterable of str
JoinRaises(v) ==
    \/ ~Iterable(v)
    \/ \E i \in 1..Len(Iter(v)) : Iter(v)[i].t # "str"

\* ', '.join(v)
CommaJoin(v) == Join([i \in 1..Len(Iter(v)) |-> Iter(v)[i].s], <<",", " ">>)

\* [f"- {x.get(..)} .." for x in v] raises unless v iterates over dicts
BulletsRaise(v) ==
    \/ ~Iterable(v)
    \/ \E i \in 1..Len(Iter(v)) : Iter(v)[i].t # "obj"

\* main.py:165
EduLine(edu) ==
    <<"-", " ">> \o PyStr(Get(edu, K.degree, JStr(<<>>))) \o s_at
        \o PyStr(Get(edu, K.institution, JStr(<<>>))) \o <<" ", "(">>
        \o PyStr(Get(edu, K.year, JStr(<<>>))) \o <<")">>

\* main.py:168
ExpLine(exp) ==
    <<"-", " ">> \o PyStr(Get(exp, K.position, JStr(<<>>))) \o s_at
        \o PyStr(Get(exp, K.company, JStr(<<>>))) \o <<" ", "(">>
        \o PyStr(Get(exp, K.duration, JStr(<<>>))) \o <<")">>

\* main.py:173
ProjLine(proj) ==
    <<"-", " ">> \o PyStr(Get(proj, K.name, JStr(<<>>))) \o <<":", " ">>
        \o PyStr(Get(proj, K.description, JStr(<<>>))) \o s_Tech
        \o CommaJoin(Get(proj, K.technologies, JList(<<>>))) \o <<")">>

\* whether building analysis_text (main.py:158-177) raises for the dict d
RenderRaises(d) ==
    \/ BulletsRaise(Get(d, K.education, JList(<<>>)))
    \/ BulletsRaise(Get(d, K.work_experience, JList(<<>>)))
    \/ JoinRaises(Get(d, K.technical_skills, JList(<<>>)))
    \/ BulletsRaise(Get(d, K.projects, JList(<<>>)))
    \/ LET ps == Iter(Get(d, K.projects, JList(<<>>)))
       IN  \E i \in 1..Len(ps) :
               JoinRaises(Get(ps[i], K.technologies, JList(<<>>)))
    \/ JoinRaises(Get(d, K.languages, JList(<<>>)))
    \/ JoinRaises(Get(d, K.soft_skills, JList(<<>>)))

\* analysis_text (main.py:158-177) for a dict d on which nothing raises
Render(d) ==
    LET edu  == Iter(Get(d, K.education, JList(<<>>)))
        work == Iter(Get(d, K.work_experience, JList(<<>>)))
        proj == Iter(Get(d, K.projects, JList(<<>>)))
        lines ==
          << <<>>,
             Label.Name \o PyStr(Get(d, K.name, JStr(s_NotFound))),
             Label.Email \o PyStr(Get(d, K.email, JStr(s_NotFound))),
             Label.Phone \o PyStr(Get(d, K.phone, JStr(s_NotFound))),
             Label.Location \o PyStr(Get(d, K.location, JStr(s_NotFound))),
             <<>>,
             Label.Education,
             Join([i \in 1..Len(edu) |-> EduLine(edu[i])], <<NL>>),
             <<>>,
             Label.Work,
             Join([i \in 1..Len(work) |-> ExpLine(work[i])], <<NL>>),
             <<>>,
             Label.Skills \o CommaJoin(Get(d, K.technical_skills, JList(<<>>))),
             <<>>,
             Label.Projects,
             Join([i \in 1..Len(proj) |-> ProjLine(proj[i])], <<NL>>),
             <<>>,
             Label.Languages \o CommaJoin(Get(d, K.languages, JList(<<>>))),
             Label.Soft \o CommaJoin(Get(d, K.soft_skills, JList(<<>>))),
             <<>> >>
    IN  Join(lines, <<NL>>)

\* variant of CvErrorProfile: the handler leaves the name unset
CvErrorProfile_unnamed(cv_text) ==
    [raw_text |-> cv_text, analysis |-> s_ErrorAnalyzingCV,
     extracted_name |-> JNull, structured_data |-> None]

\* main.py:205-207: the outer handler's profile
CvErrorProfile(cv_text) ==
    [raw_text |-> cv_text, analysis |-> s_ErrorAnalyzingCV,
     extracted_name |-> JStr(s_Placeholder), structured_data |-> None]

\* main.py:187-203: the legacy fallback for content json.loads rejects
CvFallback(cv_text, content) ==
    LET ls == Split(content, NL) IN
    IF StartsWith(content, s_NAME)
    THEN [raw_text |-> cv_text,
          analysis |-> Join(Tail(ls), <<NL>>),
          extracted_name |-> JStr(Strip(Remove(ls[1], s_NAME))),
          structured_data |-> None]
    ELSE [raw_text |-> cv_text, analysis |-> content,
          extracted_name |-> JStr(s_Placeholder), structured_data |-> None]

(***************************************************************************)
(* analyze_cv (main.py:78-207).  reply is what ollama.chat did:            *)
(*   [kind |-> "raise", msg |-> m]    the call (or reading the content     *)
(*                                    out of the response) raised;         *)
(*   [kind |-> "json", value |-> j]   the content is a JSON document that  *)
(*                                    json.loads parses to j;              *)
(*   [kind |-> "text", content |-> s] the content s is not JSON.           *)
(***************************************************************************)
\* main.py:81-203: the body of the outer try block; Raised(m) when a step
\* raises anything but the JSONDecodeError the inner handler takes
analyze_cv_try(cv_text, reply) ==
    CASE reply.kind = "raise" -> Raised(reply.msg)
      [] reply.kind = "json" ->
            LET d == reply.value IN
            IF d.t # "obj" THEN Raised("AttributeError")
            ELSE IF RenderRaises(d) THEN Raised("TypeError")
            ELSE [raw_text |-> cv_text,
                  analysis |-> Render(d),
                  extracted_name |-> Get(d, K.name, JStr(s_Placeholder)),
                  structured_data |-> Some(d)]
      [] reply.kind = "text" -> CvFallback(cv_text, reply.content)

analyze_cv(cv_text, reply) ==
    The({ IF IsRaised(r) THEN CvErrorProfile(cv_text) ELSE r :
          r \in {analyze_cv_try(cv_text, reply)} })


(***************************************************************************)
(* Document text extraction (main.py:54-76).  An uploaded file is          *)
(*   [filename |-> name, content |-> [wellformed |-> b, units |-> us]]     *)
(* where wellformed says whether the bytes are what the format's reader    *)
(* accepts (a PDF PyPDF2 reads, a DOCX python-docx reads, valid UTF-8) and *)
(* units are the texts it holds (pages, paragraphs, decoded chunks).       *)
(***************************************************************************)
ext_pdf == <<".","p","d","f">>
ext_docx == <<".","d","o","c","x">>
ext_txt == <<".","t","x","t">>

\* main.py:54-64: any reader failure gives ""
extract_text_from_pdf(content) ==
    IF content.wellformed
    THEN Flatten([i \in 1..Len(content.units) |-> content.units[i] \o <<NL>>])
    ELSE <<>>

\* main.py:66-76: any reader failure gives ""
extract_text_from_docx(content) ==
    IF content.wellformed
    THEN Flatten([i \in 1..Len(content.units) |-> content.units[i] \o <<NL>>])
    ELSE <<>>

\* main.py:560: content.decode('utf-8') of well-formed bytes
decode_utf8(content) == Flatten(content.units)

(***************************************************************************)
(* HTTP responses.  A handler that returns gives status 200 and its body;  *)
(* a raised HTTPException(status, detail) gives that status and the body   *)
(* {"detail": detail}.  A detail is [wrapped, text, arg]: the literal      *)
(* text with arg formatted into it; wrapped = s > 0 says the detail is     *)
(* str() of an HTTPException of status s, which renders as "s: text".      *)
(***************************************************************************)
Detail(text, arg) == [wrapped |-> 0, text |-> text, arg |-> arg]

\* str(e) for e = HTTPException(status_code=status, detail=d)
StrOfHTTPException(status, d) == [wrapped |-> status, text |-> d.text, arg |-> d.arg]

ErrorResponse(endpoint, status, detail) ==
    [endpoint |-> endpoint, status |-> status, body |-> [detail |-> detail]]

OkResponse(endpoint, body) ==
    [endpoint |-> endpoint, status |-> 200, body |-> body]

NoResponse == [endpoint |-> "none", status |-> 0, body |-> <<>>]

(***************************************************************************)
(* upload_cv after "await file.read()" (main.py:554-581), as the triple    *)
(* [response, cv_data, cv_file_path] it leaves, given the slot it found.   *)
(* The three raise sites lie inside the try whose handler (main.py:579)    *)
(* catches Exception, HTTPException included, and raises status 500.       *)
(***************************************************************************)
\* variant of UploadFailed: the handler also resets the slot
UploadFailed_resetting(data, path, detail) ==
    [response |-> ErrorResponse("upload-cv", 500, detail),
     cv_data |-> None, cv_file_path |-> None]

\* main.py:579-581: the handler; detail is str(e) of what was raised
UploadFailed(data, path, detail) ==
    [response |-> ErrorResponse("upload-cv", 500, detail),
     cv_data |-> data, cv_file_path |-> path]

\* main.py:555-560: the extracted text, for a supported and decodable file
ExtractText(file) ==
    IF EndsWith(Lower(file.filename), ext_pdf)
    THEN extract_text_from_pdf(file.content)
    ELSE IF EndsWith(Lower(file.filename), ext_docx)
    THEN extract_text_from_docx(file.content)
    ELSE decode_utf8(file.content)

upload_cv(data, path, file, reply) ==
    The({
    IF ~(EndsWith(name, ext_pdf) \/ EndsWith(name, ext_docx) \/ EndsWith(name, ext_txt))
    THEN UploadFailed(data, path,
            StrOfHTTPException(400,
                Detail("Unsupported file type. Use PDF, DOCX, or TXT.", <<>>)))
    ELSE IF ~EndsWith(name, ext_pdf) /\ ~EndsWith(name, ext_docx)
            /\ ~file.content.wellformed
    THEN \* UnicodeDecodeError from content.decode('utf-8')
         UploadFailed(data, path, Detail("'utf-8' codec can't decode", <<>>))
    ELSE IF IsBlank(cv_text)
    THEN UploadFailed(data, path,
            StrOfHTTPException(400,
                Detail("Could not extract text from file.", <<>>)))
    ELSE [response |-> OkResponse("upload-cv",
                          [status |-> "success", filename |-> file.filename]),
          cv_data |-> Some(analyze_cv(cv_text, reply)),
          cv_file_path |-> Some(file.filename)] :
    name \in {Lower(file.filename)},
    cv_text \in {IF file.content.wellformed THEN ExtractText(file) ELSE <<>>} })

\* main.py:583-591
get_cv_status(data, path) ==
    OkResponse("cv-status",
        [has_cv |-> data # None,
         filename |-> IF path = None THEN JNull ELSE JStr(path[1]),
         cv_analysis |-> IF data # None THEN JStr(data[1].analysis) ELSE JNull,
         extracted_name |-> IF data # None THEN data[1].extracted_name ELSE JNull])

\* main.py:593-599
\* variant of remove_cv: only cv_file_path is cleared
remove_cv_keeping_data(data, path) ==
    [response |-> OkResponse("cv", [status |-> "success"]),
     cv_data |-> data, cv_file_path |-> None]

\* variant of remove_cv: only cv_data is cleared
remove_cv_keeping_path(data, path) ==
    [response |-> OkResponse("cv", [status |-> "success"]),
     cv_data |-> None, cv_file_path |-> path]

remove_cv(data, path) ==
    [response |-> OkResponse("cv", [status |-> "success"]),
     cv_data |-> None, cv_file_path |-> None]


(***************************************************************************)
(* analyze_company (main.py:209-351).  fetch is what the network and the   *)
(* HTML parser did:                                                        *)
(*   [kind |-> "raise", msg |-> m]   requests.get (or a later step) raised *)
(*                                   an exception whose str() is m;        *)
(*   [kind |-> "page", status, title, metas, links, body]                  *)
(*       a response of any HTTP status (requests.get does not raise for    *)
(*       status) whose markup has the <title> text title (<<>> for no      *)
(*       <title>, else <<text>>), the <meta> tags metas (each with an      *)
(*       optional name and content), the href values links of its anchors, *)
(*       and the text body after the title.                                *)
(***************************************************************************)
s_403 == <<"4","0","3">>
s_404 == <<"4","0","4">>
s_forbidden == <<"f","o","r","b","i","d","d","e","n">>
s_error == <<"e","r","r","o","r">>
s_UnknownCompany == <<"U","n","k","n","o","w","n"," ","C","o","m","p","a","n","y">>
s_the_company == <<"t","h","e"," ","c","o","m","p","a","n","y">>
s_a_technology_company == <<"a"," ","t","e","c","h","n","o","l","o","g","y"," ","c","o","m","p","a","n","y">>
s_NoDescription == <<"N","o"," ","d","e","s","c","r","i","p","t","i","o","n"," ","f","o","u","n","d">>
s_description == <<"d","e","s","c","r","i","p","t","i","o","n">>
s_Ellipsis == <<".",".",".">>
s_http == <<"h","t","t","p",":","/","/">>
s_https == <<"h","t","t","p","s",":","/","/">>

\* main.py:238
about_tokens ==
    << <<"a","b","o","u","t">>,
       <<"o","v","e","r">>,
       <<"c","o","m","p","a","n","y">> >>

\* main.py:255
client_indicators ==
    << <<"c","l","i","e","n","t","s">>,
       <<"c","u","s","t","o","m","e","r","s">>,
       <<"p","a","r","t","n","e","r","s">>,
       <<"w","e"," ","w","o","r","k"," ","w","i","t","h">>,
       <<"o","u","r"," ","c","l","i","e","n","t","s">>,
       <<"t","r","u","s","t","e","d"," ","b","y">> >>

\* main.py:264
client_suffixes ==
    << <<".","c","o","m">>,
       <<".","b","e">>,
       <<".","e","u">>,
       <<".","o","r","g">> >>

\* main.py:268
tech_indicators ==
    << <<"t","e","c","h","n","o","l","o","g","i","e","s">>,
       <<"t","e","c","h"," ","s","t","a","c","k">>,
       <<"w","e"," ","u","s","e">>,
       <<"b","u","i","l","t"," ","w","i","t","h">>,
       <<"d","e","v","e","l","o","p","e","d"," ","w","i","t","h">> >>

\* main.py:275
tech_terms ==
    << <<"r","e","a","c","t">>,
       <<"a","n","g","u","l","a","r">>,
       <<"v","u","e">>,
       <<"n","o","d","e",".","j","s">>,
       <<"p","y","t","h","o","n">>,
       <<"j","a","v","a">>,
       <<"p","h","p">>,
       <<"w","o","r","d","p","r","e","s","s">>,
       <<"s","h","o","p","i","f","y">>,
       <<"a","w","s">>,
       <<"a","z","u","r","e">>,
       <<"d","o","c","k","e","r">>,
       <<"k","u","b","e","r","n","e","t","e","s">> >>

\* main.py:280
project_indicators ==
    << <<"p","r","o","j","e","c","t","s">>,
       <<"p","o","r","t","f","o","l","i","o">>,
       <<"c","a","s","e"," ","s","t","u","d","i","e","s">>,
       <<"w","e"," ","b","u","i","l","t">>,
       <<"w","e"," ","d","e","v","e","l","o","p","e","d">> >>

\* main.py:288
project_words ==
    << <<"a","p","p">>,
       <<"w","e","b","s","i","t","e">>,
       <<"s","y","s","t","e","m">>,
       <<"p","l","a","t","f","o","r","m">>,
       <<"t","o","o","l">> >>

\* main.py:298
error_names ==
    << <<"4","0","3"," ","f","o","r","b","i","d","d","e","n">>,
       <<"4","0","4"," ","n","o","t"," ","f","o","u","n","d">>,
       <<"e","r","r","o","r">>,
       <<"a","c","c","e","s","s"," ","d","e","n","i","e","d">> >>

\* main.py:314
no_focus ==
    << <<"n","o"," ","d","e","s","c","r","i","p","t","i","o","n"," ","f","o","u","n","d">>,
       <<"4","0","3"," ","f","o","r","b","i","d","d","e","n">>,
       <<"4","0","4"," ","n","o","t"," ","f","o","u","n","d">> >>

s_Yes == <<"Y","e","s">>
s_No == <<"N","o">>
s_Good == <<"G","o","o","d">>
s_Limited == <<"L","i","m","i","t","e","d"," ","(","w","e","b","s","i","t","e"," ","a","c","c","e","s","s"," ","i","s","s","u","e","s"," ","d","e","t","e","c","t","e","d",")">>
s_UnknownAccess == <<"U","n","k","n","o","w","n"," ","(","w","e","b","s","i","t","e"," ","a","c","c","e","s","s"," ","i","s","s","u","e",")">>
s_CouldNotDetermine == <<"C","o","u","l","d"," ","n","o","t"," ","d","e","t","e","r","m","i","n","e"," ","(","w","e","b","s","i","t","e"," ","a","c","c","e","s","s"," ","i","s","s","u","e",")">>

ClientWindow == 500

TechWindow == 300

ProjectWindow == 400

ClientCap == 5

ProjectCap == 3

MinNameLen == 3

FocusMax == 200

SampleMax == 100

Min(a, b) == IF a <= b THEN a ELSE b

\* s[i-1 : i-1+n] in Python's 0-based slicing
Slice(s, i, n) == SubSeq(s, i, Min(Len(s), i + n - 1))

\* xs[:n]
Take(xs, n) == SubSeq(xs, 1, Min(Len(xs), n))

InSeq(x, xs) == \E i \in 1..Len(xs) : xs[i] = x

ContainsAny(s, subs) == \E i \in 1..Len(subs) : Contains(s, subs[i])

IsUpperChar(c) == c \in DOMAIN ToLower

IsLetter(c) == c \in DOMAIN ToLower \/ LowerChar(c) # c \/ InSeq(c, LowerOf)

IsDigit(c) == c \in {"0", "1", "2", "3", "4", "5", "6", "7", "8", "9"}

\* \w
IsWordChar(c) == IsLetter(c) \/ IsDigit(c) \/ c = "_"

\* \b between s[k] and s[k+1], for k in 0..Len(s)
Boundary(s, k) ==
    (k >= 1 /\ IsWordChar(s[k])) # (k < Len(s) /\ IsWordChar(s[k + 1]))

\* the last index of the greedy run [a-zA-Z\s&]+ that starts at i + 1
RECURSIVE RunEnd(_, _)
RunEnd(s, i) ==
    IF i < Len(s) /\ (IsLetter(s[i + 1]) \/ IsSpace(s[i + 1]) \/ s[i + 1] = "&")
    THEN RunEnd(s, i + 1)
    ELSE i

\* the end of the match of main.py:264's pattern that starts at i, 0 for none
ClientMatchEnd(s, i) ==
    IF ~(IsUpperChar(s[i]) /\ Boundary(s, i - 1)) THEN 0
    ELSE LET j == RunEnd(s, i)
             sfx == {n \in 1..Len(client_suffixes) :
                        /\ j + Len(client_suffixes[n]) <= Len(s)
                        /\ SubSeq(s, j + 1, j + Len(client_suffixes[n]))
                              = client_suffixes[n]
                        /\ Boundary(s, j + Len(client_suffixes[n]))}
             ends == {k \in (i + 1)..j : Boundary(s, k)}
         IN  IF j = i THEN 0
             ELSE IF sfx # {} THEN j + Len(client_suffixes[CHOOSE n \in sfx : TRUE])
             ELSE IF ends # {} THEN CHOOSE k \in ends : \A m \in ends : m <= k
             ELSE 0

\* re.findall of main.py:264's pattern in s, scanning from position i
RECURSIVE FindAllClients(_, _)
FindAllClients(s, i) ==
    IF i > Len(s) THEN <<>>
    ELSE LET e == ClientMatchEnd(s, i) IN
         IF e = 0 THEN FindAllClients(s, i + 1)
         ELSE <<SubSeq(s, i, e)>> \o FindAllClients(s, e + 1)

\* main.py:254-265
Clients(page_text) ==
    Flatten([k \in 1..Len(client_indicators) |->
        IF Contains(page_text, client_indicators[k])
        THEN Take(FindAllClients(
                    Slice(page_text, Find(page_text, client_indicators[k]),
                          ClientWindow), 1), ClientCap)
        ELSE <<>>])

\* main.py:267-277
Technologies(page_text) ==
    Flatten([k \in 1..Len(tech_indicators) |->
        IF Contains(page_text, tech_indicators[k])
        THEN LET context == Slice(page_text, Find(page_text, tech_indicators[k]),
                                  TechWindow)
             IN  SelectSeq(tech_terms, LAMBDA tech : Contains(context, tech))
        ELSE <<>>])

\* main.py:279-289
Projects(page_text) ==
    Flatten([k \in 1..Len(project_indicators) |->
        IF Contains(page_text, project_indicators[k])
        THEN LET context == Slice(page_text, Find(page_text, project_indicators[k]),
                                  ProjectWindow)
                 hits == SelectSeq(Split(context, "."),
                            LAMBDA s : ContainsAny(Lower(s), project_words))
             IN  Take([i \in 1..Len(hits) |-> Strip(hits[i])], ProjectCap)
        ELSE <<>>])

Line(label, value) == [label |-> label, value |-> value, items |-> {}]

SetLine(label, items) == [label |-> label, value |-> <<>>, items |-> items]

\* main.py:308-332: the summary's lines; set(...) is joined in no fixed
\* order, so a joined set is kept as the set of its entries
Summary(url, company_name, clean_description, about_url, meaningful, details) ==
    LET plain == clean_description # <<>> /\ ~InSeq(Lower(clean_description), no_focus)
        focus == IF plain /\ Len(clean_description) > FocusMax
                 THEN Take(clean_description, FocusMax) \o s_Ellipsis
                 ELSE IF plain THEN clean_description
                 ELSE s_CouldNotDetermine
    IN  << Line("Company Name: ", company_name),
           Line("Website: ", url),
           Line("Description: ", clean_description),
           Line("- Company appears to be: ",
                IF meaningful THEN company_name ELSE s_UnknownAccess),
           Line("- Main business focus: ", focus),
           Line("- About page available: ", IF about_url # None THEN s_Yes ELSE s_No),
           Line("- Information quality: ", IF meaningful THEN s_Good ELSE s_Limited) >>
        \o (IF details.clients # <<>>
            THEN <<SetLine("- Notable clients/partners: ",
                           {details.clients[i] : i \in 1..Len(details.clients)})>>
            ELSE <<>>)
        \o (IF details.technologies # <<>>
            THEN <<SetLine("- Technologies used: ",
                           {details.technologies[i] : i \in 1..Len(details.technologies)})>>
            ELSE <<>>)
        \o (IF details.projects # <<>>
            THEN <<Line("- Sample projects: ",
                        Take(details.projects[1], SampleMax) \o s_Ellipsis)>>
            ELSE <<>>)

\* main.py:228-231: the content of the first <meta name="description">
Description(metas) ==
    LET hits == SelectSeq(metas, LAMBDA m : m.name = Some(s_description)) IN
    IF hits = <<>> THEN <<>>
    ELSE IF hits[1].content = None THEN <<>> ELSE hits[1].content[1]

\* main.py:234-240: the first href with an about-like token
AboutUrl(links) ==
    LET hits == SelectSeq(links, LAMBDA h : ContainsAny(Lower(h), about_tokens)) IN
    IF hits = <<>> THEN None ELSE Some(hits[1])

\* variant of IsErrorTitle: the words are looked for in the title as written
IsErrorTitle_cased(title_text) ==
    \/ Contains(title_text, s_403)
    \/ Contains(title_text, s_forbidden)
    \/ Contains(title_text, s_error)

\* main.py:221: the title reads like an error page
IsErrorTitle(title_text) ==
    \/ Contains(title_text, s_403)
    \/ Contains(Lower(title_text), s_forbidden)
    \/ Contains(Lower(title_text), s_error)

\* main.py:226-343: the profile of a page whose title is no error title
CompanyProfile(url, fetch, title_text, page_text) ==
    The({ The({ [company_name |-> company_name,
                 description |-> clean_description,
                 about_url |-> about_url,
                 main_url |-> url,
                 analysis_summary |-> Summary(url, company_name, clean_description,
                                              about_url, meaningful, details),
                 clients |-> details.clients,
                 technologies |-> details.technologies,
                 projects |-> details.projects] :
                company_name \in {IF meaningful THEN name0 ELSE s_the_company},
                clean_description \in
                    {IF ~meaningful THEN s_a_technology_company
                     ELSE IF description # <<>> THEN description
                     ELSE s_NoDescription} }) :
          description \in {Description(fetch.metas)},
          about_url \in {AboutUrl(fetch.links)},
          details \in {[clients |-> Clients(page_text),
                        technologies |-> Technologies(page_text),
                        projects |-> Projects(page_text)]},
          name0 \in {IF Contains(title_text, <<"|">>)
                     THEN Strip(Split(title_text, "|")[1])
                     ELSE title_text},
          meaningful \in
              {LET n == IF Contains(title_text, <<"|">>)
                        THEN Strip(Split(title_text, "|")[1])
                        ELSE title_text
               IN  n # <<>> /\ ~InSeq(Lower(n), error_names) /\ Len(n) > MinNameLen} })

\* main.py:212-343: the body of the try block; Raised(m) when a step raises
analyze_company_try(url, fetch) ==
    IF fetch.kind = "raise" THEN Raised(fetch.msg)
    ELSE The({ IF IsErrorTitle(title_text)
               THEN [error |-> Detail("Could not access company website: {}. Try using the main company URL instead of specific pages.", title_text)]
               ELSE CompanyProfile(url, fetch, title_text, page_text) :
               title_text \in {IF fetch.title # None THEN fetch.title[1]
                               ELSE s_UnknownCompany},
               page_text \in {Lower((IF fetch.title # None THEN fetch.title[1]
                                     ELSE <<>>) \o fetch.body)} })

\* main.py:344-351: the handler of the try block
analyze_company_except(error_msg) ==
    IF Contains(error_msg, s_403) \/ Contains(Lower(error_msg), s_forbidden)
    THEN [error |-> Detail("Could not access company website (403 Forbidden). Try using the main company URL instead of specific pages like /careers or /join-us.", <<>>)]
    ELSE IF Contains(error_msg, s_404)
    THEN [error |-> Detail("Company website not found (404). Please check the URL and try again.", <<>>)]
    ELSE [error |-> Detail("Could not analyze company: {}", error_msg)]

\* variant of analyze_company: no handler around the body
analyze_company_unhandled(url, fetch) == analyze_company_try(url, fetch)

\* main.py:211-351
analyze_company(url, fetch) ==
    The({ IF IsRaised(r) THEN analyze_company_except(r.raised) ELSE r :
          r \in {analyze_company_try(url, fetch)} })


(***************************************************************************)
(* Content generation (main.py:353-496).  A model reply is                 *)
(*   [kind |-> "raise", msg |-> m]       ollama.chat raised, str(e) = m;   *)
(*   [kind |-> "content", content |-> s] the message content s.            *)
(***************************************************************************)
s_short == <<"s","h","o","r","t">>
s_medium == <<"m","e","d","i","u","m">>
s_1dot == <<"1",".">>
s_2dot == <<"2",".">>
s_junior_developer == <<"j","u","n","i","o","r"," ","d","e","v","e","l","o","p","e","r">>
s_unknown == <<"u","n","k","n","o","w","n">>
s_ErrLinkedIn == <<"E","r","r","o","r"," ","g","e","n","e","r","a","t","i","n","g"," ","L","i","n","k","e","d","I","n"," ","m","e","s","s","a","g","e",":"," ">>

\* variant of IsShortHeader: "1." is looked for at the start of the line
IsShortHeader_prefix(line) ==
    Contains(Lower(line), s_short) \/ StartsWith(line, s_1dot)

\* main.py:426
IsShortHeader(line) == Contains(Lower(line), s_short) \/ Contains(line, s_1dot)

\* main.py:428
IsMediumHeader(line) == Contains(Lower(line), s_medium) \/ Contains(line, s_2dot)

\* main.py:425-431: one iteration of the loop
SplitStep(st, line) ==
    IF IsShortHeader(line) THEN [st EXCEPT !.current_version = "short"]
    ELSE IF IsMediumHeader(line) THEN [st EXCEPT !.current_version = "medium"]
    ELSE [st EXCEPT !.versions[st.current_version] = @ \o line \o <<NL>>]

\* main.py:422-431: the loop's state after the first n lines
RECURSIVE SplitLoop(_, _)
SplitLoop(lines, n) ==
    IF n = 0
    THEN [versions |-> [short |-> <<>>, medium |-> <<>>], current_version |-> "short"]
    ELSE The({ SplitStep(st, lines[n]) : st \in {SplitLoop(lines, n - 1)} })

\* main.py:421-433: the versions dict for the response's lines
SplitSections(lines) == SplitLoop(lines, Len(lines)).versions

\* main.py:353-438
generate_cover_letter(company_info, cv_info, position, notes, applicant_name, reply) ==
    IF reply.kind = "raise"
    THEN [error |-> Detail("Could not generate cover letter: {}", reply.msg)]
    ELSE The({ SplitSections(lines) : lines \in {Split(reply.content, NL)} })

\* main.py:440-496: a failed call comes back as the message text
generate_linkedin_message(company_info, applicant_name, reply) ==
    IF reply.kind = "raise" THEN s_ErrLinkedIn \o reply.msg ELSE reply.content

\* main.py:506: re.sub(r'[^\w\s-]', '', s)
RECURSIVE DropSpecial(_)
DropSpecial(s) ==
    IF Len(s) = 0 THEN <<>>
    ELSE IF IsWordChar(s[1]) \/ IsSpace(s[1]) \/ s[1] = "-"
    THEN <<s[1]>> \o DropSpecial(Tail(s))
    ELSE DropSpecial(Tail(s))

\* variant of Underscore: every space or hyphen becomes an underscore of its own
RECURSIVE Underscore_each(_)
Underscore_each(s) ==
    IF Len(s) = 0 THEN <<>>
    ELSE IF IsSpace(s[1]) \/ s[1] = "-"
    THEN <<"_">> \o Underscore_each(Tail(s))
    ELSE <<s[1]>> \o Underscore_each(Tail(s))

\* main.py:507: re.sub(r'[-\s]+', '_', s)
RECURSIVE Underscore(_)
Underscore(s) ==
    IF Len(s) = 0 THEN <<>>
    ELSE IF IsSpace(s[1]) \/ s[1] = "-"
    THEN IF Len(s) > 1 /\ (IsSpace(s[2]) \/ s[2] = "-")
         THEN Underscore(Tail(s))
         ELSE <<"_">> \o Underscore(Tail(s))
    ELSE <<s[1]>> \o Underscore(Tail(s))

\* main.py:508: s.strip('_')
RECURSIVE StripUnderscores(_)
StripUnderscores(s) ==
    IF Len(s) > 0 /\ s[1] = "_" THEN StripUnderscores(Tail(s))
    ELSE IF Len(s) > 0 /\ s[Len(s)] = "_"
    THEN StripUnderscores(SubSeq(s, 1, Len(s) - 1))
    ELSE s

\* main.py:503-508
clean_company_name(company_name) ==
    StripUnderscores(Underscore(DropSpecial(company_name)))

\* main.py:498-533: the directory written, or Raised when the disk refuses
save_application(company_info, cover_letters, linkedin_message, position, disk_ok) ==
    IF disk_ok
    THEN [dir |-> clean_company_name(company_info.company_name)]
    ELSE Raised("OSError")

\* bool(v) for a value json.loads can return
Truthy(v) ==
    CASE v.t = "null" -> FALSE
      [] v.t = "num"  -> v.digits # <<"0">>
      [] v.t = "str"  -> v.s # <<>>
      [] v.t = "list" -> v.items # <<>>
      [] v.t = "obj"  -> v.pairs # <<>>

\* main.py:608-613
NormalizeUrl(company_url) ==
    IF StartsWith(company_url, s_http) \/ StartsWith(company_url, s_https)
    THEN company_url
    ELSE s_https \o company_url

\* main.py:626-628
ApplicantName(data) ==
    IF data # None /\ Truthy(data[1].extracted_name)
          /\ data[1].extracted_name # JStr(s_Placeholder)
    THEN data[1].extracted_name
    ELSE JStr(s_Placeholder)

\* x or default, for an optional request string
OrDefault(opt, default) == IF opt # None /\ opt[1] # <<>> THEN opt[1] ELSE default

(***************************************************************************)
(* generate_application (main.py:601-674), as [response, written]: the     *)
(* response and the directories it wrote.  env holds what the              *)
(* outside did during the request: fetch, cover and linkedin (the replies  *)
(* of the two model calls) and disk_ok.  Every raise inside the try,       *)
(* the two HTTPExceptions included, reaches the handler at main.py:673.    *)
(* prompted is what the request read from the slot for the model calls:    *)
(* None when it made none, else <<[cv_info, applicant_name]>>.             *)
(***************************************************************************)
GenerateFailed(status, detail) ==
    [response |-> ErrorResponse("generate", 500, StrOfHTTPException(status, detail)),
     written |-> {}, prompted |-> None]

\* main.py:633-638, 645: the slot values handed to the model calls
Prompted(cv_info, cover_name, linkedin_name) ==
    Some([cv_info |-> cv_info, cover_name |-> cover_name,
          linkedin_name |-> linkedin_name])

\* main.py:624-671: the request once the company analysis succeeded
GenerateLetters(data, request, env, company_info) ==
    The({ IF "error" \in DOMAIN cover_letters
          THEN [GenerateFailed(500, cover_letters.error) EXCEPT
                    !.prompted = Prompted(data, applicant_name, None)]
          ELSE The({ IF IsRaised(output_path)
                     THEN [response |-> ErrorResponse("generate", 500,
                                           Detail("OSError", <<>>)),
                           written |-> {},
                           prompted |-> Prompted(data, applicant_name,
                                                 Some(applicant_name))]
                     ELSE [response |-> OkResponse("generate",
                               [status |-> "success",
                                company |-> company_info.company_name,
                                output_path |-> output_path,
                                company_analysis |-> company_info.analysis_summary,
                                cover_letters |-> cover_letters,
                                linkedin_message |-> linkedin_message,
                                cv_used |-> data # None]),
                           written |-> {output_path},
                           prompted |-> Prompted(data, applicant_name,
                                                 Some(applicant_name))] :
                     linkedin_message \in
                         {generate_linkedin_message(company_info, applicant_name,
                                                    env.linkedin)},
                     output_path \in
                         {save_application(company_info, cover_letters,
                              generate_linkedin_message(company_info, applicant_name,
                                                        env.linkedin),
                              position, env.disk_ok)} }) :
          applicant_name \in {ApplicantName(data)},
          position \in {OrDefault(request.position_title, s_junior_developer)},
          cover_letters \in
              {generate_cover_letter(company_info, data,
                   OrDefault(request.position_title, s_junior_developer),
                   OrDefault(request.user_notes, <<>>),
                   ApplicantName(data), env.cover)} })

generate_application(data, request, env) ==
    The({ IF "error" \in DOMAIN company_info
          THEN GenerateFailed(400, company_info.error)
          ELSE GenerateLetters(data, request, env, company_info) :
          company_info \in
              {analyze_company(NormalizeUrl(request.company_url), env.fetch)} })

(***************************************************************************)
(* The server: requests arrive in any order.  upload_cv is a coroutine     *)
(* that suspends once, at "await file.read()" (main.py:552), before it     *)
(* touches the slot; the other handlers have no await and run to their     *)
(* end.  The inputs below are the requests and outside outcomes tried.     *)
(***************************************************************************)
MaxReading == 1

t_cv_pdf == <<"c","v",".","p","d","f">>
t_CV_PDF == <<"C","V",".","P","D","F">>
t_a_docx == <<"a",".","d","o","c","x">>
t_n_txt == <<"n",".","t","x","t">>
t_x_xyz == <<"x",".","x","y","z">>
t_Al == <<"A","l">>
t_JaneDoe == <<"J","a","n","e"," ","D","o","e">>
t_Go == <<"G","o">>
t_NameBob == <<"N","A","M","E",":"," ","B","o","b",NL,"D","e","v">>
t_hi == <<"h","i">>
t_down == <<"d","o","w","n">>
t_acme == <<"a","c","m","e",".","c","o","m">>
t_https_acme == <<"h","t","t","p","s",":","/","/","a","c","m","e",".","c","o","m">>
t_AcmeHome == <<"A","c","m","e"," ","|"," ","H","o","m","e">>
t_403Forbidden == <<"4","0","3"," ","F","o","r","b","i","d","d","e","n">>
t_timeout == <<"t","i","m","e","d"," ","o","u","t">>
t_about == <<"/","A","b","o","u","t","-","u","s">>
t_WeBuild == <<"W","e"," ","b","u","i","l","d"," ","a","p","p","s">>
t_body == <<" ","p","r","o","j","e","c","t","s","."," ","a","n"," ","a","p","p","."," ","w","e"," ","u","s","e"," ","p","y","t","h","o","n"," ","a","n","d"," ","j","a","v","a">>
t_letter == <<"1","."," ","S","h","o","r","t"," ","v","e","r","s","i","o","n",NL,"H","e","l","l","o"," ","t","h","e","r","e",".",NL,"2","."," ","M","e","d","i","u","m"," ","v","e","r","s","i","o","n",NL,"L","o","n","g","e","r"," ","t","e","x","t",".">>
t_Hey == <<"H","e","y">>

File(name, wellformed, units) ==
    [filename |-> name, content |-> [wellformed |-> wellformed, units |-> units]]

\* two files that upload (one with an upper-case extension) and one for each
\* way to fail: a blank page, an unreadable document, undecodable bytes, an
\* unsupported extension
ServerFiles ==
    { File(t_CV_PDF, TRUE, <<t_Al>>),     File(t_n_txt, TRUE, <<t_Al>>),
      File(t_cv_pdf, TRUE, <<<<" ">>>>),  File(t_a_docx, FALSE, <<>>),
      File(t_n_txt, FALSE, <<>>),         File(t_x_xyz, TRUE, <<t_Al>>) }

RaiseReply(msg) == [kind |-> "raise", msg |-> msg]

JsonReply(value) == [kind |-> "json", value |-> value]

TextReply(content) == [kind |-> "text", content |-> content]

ContentReply(content) == [kind |-> "content", content |-> content]

ServerCvReplies ==
    { RaiseReply(t_down),
      JsonReply(JObj(<< Pair(K.name, JStr(t_JaneDoe)),
                       Pair(K.technical_skills, JList(<<JStr(t_Go)>>)) >>)),
      JsonReply(JObj(<< Pair(K.name, JNull) >>)),
      JsonReply(JList(<<>>)),
      TextReply(t_NameBob),
      TextReply(t_hi) }

Page(status, title, metas, links, body) ==
    [kind |-> "page", status |-> status, title |-> title, metas |-> metas,
     links |-> links, body |-> body]

RaiseFetch(msg) == [kind |-> "raise", msg |-> msg]

AcmePage ==
    Page(200, Some(t_AcmeHome),
         <<[name |-> Some(s_description), content |-> Some(t_WeBuild)]>>,
         <<t_about>>, t_body)

ServerFetches ==
    { RaiseFetch(t_403Forbidden),
      RaiseFetch(t_timeout),
      AcmePage,
      Page(200, Some(t_403Forbidden), <<>>, <<>>, <<>>),
      Page(404, None, <<>>, <<>>, <<>>) }

ServerRequests ==
    { [company_url |-> t_acme, position_title |-> None, user_notes |-> None] }

Env(fetch, cover, linkedin, disk_ok) ==
    [fetch |-> fetch, cover |-> cover, linkedin |-> linkedin, disk_ok |-> disk_ok]

\* every fetch outcome with the rest going well, and each later step failing
\* alone after a good fetch
ServerEnvs ==
    { Env(f, ContentReply(t_letter), ContentReply(t_Hey), TRUE) : f \in ServerFetches }
    \cup { Env(AcmePage, RaiseReply(t_down), ContentReply(t_Hey), TRUE),
           Env(AcmePage, ContentReply(t_letter), RaiseReply(t_down), TRUE),
           Env(AcmePage, ContentReply(t_letter), ContentReply(t_Hey), FALSE) }

NoCall == [fn |-> "none"]

Init ==
    /\ cv_data = None
    /\ cv_file_path = None
    /\ reading = {}
    /\ last_request = [endpoint |-> "none"]
    /\ response = NoResponse
    /\ output_dir = {}
    /\ last_change = [op |-> "none"]
    /\ call = NoCall
    /\ ret = None

\* main.py:544-552: the request arrives and the coroutine awaits the read
UploadRead(file) ==
    /\ Cardinality(reading) < MaxReading
    /\ file \notin reading
    /\ reading' = reading \cup {file}
    /\ UNCHANGED <<cv_data, cv_file_path, last_request, response, output_dir,
                   last_change, call, ret>>

\* main.py:554-581: the coroutine resumes and runs to its end
UploadResume(file, reply) ==
    /\ file \in reading
    /\ \E r \in {upload_cv(cv_data, cv_file_path, file, reply)} :
       /\ cv_data' = r.cv_data
       /\ cv_file_path' = r.cv_file_path
       /\ response' = r.response
       /\ last_request' = [endpoint |-> "upload-cv", file |-> file]
       /\ last_change' = IF r.response.status = 200
                         THEN [op |-> "upload", file |-> file, reply |-> reply]
                         ELSE last_change
    /\ reading' = reading \ {file}
    /\ UNCHANGED <<output_dir, call, ret>>

\* main.py:583-591
CvStatus ==
    /\ response' = get_cv_status(cv_data, cv_file_path)
    /\ last_request' = [endpoint |-> "cv-status"]
    /\ UNCHANGED <<cv_data, cv_file_path, reading, output_dir, last_change, call, ret>>

\* main.py:593-599
RemoveCv ==
    /\ cv_data' = remove_cv(cv_data, cv_file_path).cv_data
    /\ cv_file_path' = remove_cv(cv_data, cv_file_path).cv_file_path
    /\ response' = remove_cv(cv_data, cv_file_path).response
    /\ last_request' = [endpoint |-> "cv"]
    /\ last_change' = [op |-> "delete"]
    /\ UNCHANGED <<reading, output_dir, call, ret>>

\* main.py:601-674
Generate(req, env) ==
    /\ \E r \in {generate_application(cv_data, req, env)} :
       /\ response' = r.response
       /\ last_request' = [endpoint |-> "generate", body |-> req, env |-> env,
                           prompted |-> r.prompted]
       /\ output_dir' = output_dir \cup r.written
    /\ UNCHANGED <<cv_data, cv_file_path, reading, last_change, call, ret>>

Next ==
    \/ \E file \in ServerFiles : UploadRead(file)
    \/ \E file \in ServerFiles, reply \in ServerCvReplies : UploadResume(file, reply)
    \/ CvStatus
    \/ RemoveCv
    \/ \E req \in ServerRequests, env \in ServerEnvs : Generate(req, env)

Spec == Init /\ [][Next]_vars


(***************************************************************************)
(* Claims about the handlers, checked under Spec.                          *)
(***************************************************************************)
HasExtension(file, ext) == EndsWith(Lower(file.filename), ext)

SupportedFormat(file) ==
    HasExtension(file, ext_pdf) \/ HasExtension(file, ext_docx)
        \/ HasExtension(file, ext_txt)

\* a .txt upload whose bytes are not UTF-8
Undecodable(file) ==
    /\ HasExtension(file, ext_txt)
    /\ ~HasExtension(file, ext_pdf) /\ ~HasExtension(file, ext_docx)
    /\ ~file.content.wellformed

\* a supported, decodable upload whose extracted text is empty or whitespace
NoExtractableText(file) ==
    /\ SupportedFormat(file)
    /\ ~Undecodable(file)
    /\ \/ ~file.content.wellformed
       \/ \A i \in 1..Len(file.content.units) :
             \A j \in 1..Len(file.content.units[i]) :
                file.content.units[i][j] \in {" ", NL, "\t"}

UploadFinished == last_request.endpoint = "upload-cv"

GenerateFinished == last_request.endpoint = "generate"

\* C1: an upload rejected for its extension (UnsupportedFormatError) or for
\* having no extractable text (ValidationError) is answered with status 400;
\* status 500 is kept for unexpected failures.
C1_ValidationRejectedWith400 ==
    UploadFinished =>
        /\ (~SupportedFormat(last_request.file) \/ NoExtractableText(last_request.file))
              => response.status = 400
        /\ response.status = 500 => Undecodable(last_request.file)

\* the company analysis of the request that finished last
CompanyInfoOfLast ==
    analyze_company(NormalizeUrl(last_request.body.company_url),
                    last_request.env.fetch)

\* C2: /generate answers 400 whenever analyze_company returned an error
\* result, and 500 only when cover-letter generation or another unexpected
\* step failed.
C2_AnalysisErrorWith400 ==
    GenerateFinished =>
        /\ "error" \in DOMAIN CompanyInfoOfLast => response.status = 400
        /\ response.status = 500 =>
              /\ "error" \notin DOMAIN CompanyInfoOfLast
              /\ last_request.env.cover.kind = "raise" \/ ~last_request.env.disk_ok

\* this step ends an upload_cv coroutine
UploadEnds == reading' \subseteq reading /\ reading' # reading

\* C3: an upload that is rejected (unsupported extension, whitespace-only
\* text, undecodable .txt bytes) is answered with an error and leaves
\* cv_data and cv_file_path as they were, so /cv-status answers as before.
C3_FailedUploadLeavesSlot ==
    [][ (UploadEnds /\ (\/ ~SupportedFormat(last_request'.file)
                        \/ NoExtractableText(last_request'.file)
                        \/ Undecodable(last_request'.file)))
        => /\ response'.status >= 400
           /\ cv_data' = cv_data
           /\ cv_file_path' = cv_file_path
           /\ get_cv_status(cv_data', cv_file_path').body
                 = get_cv_status(cv_data, cv_file_path).body ]_vars

\* C3 witness: a slot that holds a CV after a rejected .xyz upload
C3_Witness ==
    /\ UploadFinished
    /\ ~SupportedFormat(last_request.file)
    /\ response.status >= 400
    /\ cv_data # None /\ cv_file_path # None

\* the profile analyze_cv gave for the upload recorded in last_change
ProfileOfLastChange ==
    analyze_cv(ExtractText(last_change.file), last_change.reply)

\* C4: /cv-status reflects the last slot-changing request: after a
\* successful upload of F, has_cv with F's filename, analysis and extracted
\* name; after DELETE /cv or with no change yet, has_cv false and the three
\* fields null.  DELETE /cv succeeds from every state and empties the slot.
C4_StatusReflectsLastChange ==
    /\ last_request.endpoint = "cv-status" =>
          /\ response.status = 200
          /\ IF last_change.op = "upload"
             THEN /\ response.body.has_cv = TRUE
                  /\ response.body.filename = JStr(last_change.file.filename)
                  /\ response.body.cv_analysis = JStr(ProfileOfLastChange.analysis)
                  /\ response.body.extracted_name = ProfileOfLastChange.extracted_name
             ELSE /\ response.body.has_cv = FALSE
                  /\ response.body.filename = JNull
                  /\ response.body.cv_analysis = JNull
                  /\ response.body.extracted_name = JNull
    /\ last_request.endpoint = "cv" =>
          /\ response.status = 200
          /\ cv_data = None /\ cv_file_path = None

\* C4 witness: /cv-status answered after an upload that replaced another
C4_Witness ==
    /\ last_request.endpoint = "cv-status"
    /\ last_change.op = "upload"
    /\ last_change.file.filename = t_n_txt
    /\ response.body.has_cv
    /\ response.body.extracted_name = JStr(t_JaneDoe)

\* C5: a model call that raises during /generate is surfaced as an error
\* response carrying the original message: no "success" answer, and no
\* application written, when the cover-letter call or the outreach-message
\* call raised.
C5_ModelFailureSurfaced ==
    (GenerateFinished /\ "error" \notin DOMAIN CompanyInfoOfLast) =>
        /\ last_request.env.cover.kind = "raise" =>
              /\ response.status >= 400
              /\ response.body.detail.arg = last_request.env.cover.msg
        /\ (last_request.env.cover.kind # "raise"
              /\ last_request.env.linkedin.kind = "raise") =>
              /\ response.status >= 400
              /\ response.body.detail.arg = last_request.env.linkedin.msg



(***************************************************************************)
(* The pure functions on their own: a call is drawn from the inputs below  *)
(* and the function is applied to it once.  call is the pending call and   *)
(* ret its result (None until it returns).                                 *)
(***************************************************************************)
MaxTitlePieces == 2
MaxLines == 4
MaxItems == 1

t_Acme == <<"A","c","m","e">>
t_bar == <<" ","|"," ">>
t_403 == <<"4","0","3">>
t_Forbidden == <<"F","o","r","b","i","d","d","e","n">>
t_ERROR == <<"E","R","R","O","R">>
t_40 == <<"4","0">>
t_3 == <<"3">>
l_1Short == <<"1","."," ","S","h","o","r","t"," ","v","e","r","s","i","o","n">>
l_Hello == <<"H","e","l","l","o"," ","t","h","e","r","e",".">>
l_2Medium == <<"2","."," ","M","e","d","i","u","m"," ","v","e","r","s","i","o","n">>
l_Longer == <<"L","o","n","g","e","r"," ","t","e","x","t",".">>
l_v10 == <<"v","1",".","0"," ","n","o","t","e","s">>
l_MEDIUM == <<"M","E","D","I","U","M">>
t_BSc == <<"B","S","c">>
t_1 == <<"1">>

\* all sequences over S of length at most n
RECURSIVE SeqsUpTo(_, _)
SeqsUpTo(S, n) ==
    IF n = 0 THEN {<<>>}
    ELSE SeqsUpTo(S, n - 1)
         \cup { Append(s, x) : s \in SeqsUpTo(S, n - 1), x \in S }

TitlePieces == {t_Acme, t_bar, t_403, t_Forbidden, t_ERROR, t_40, t_3}

\* title texts: up to MaxTitlePieces pieces set side by side
Titles == { Flatten(ps) : ps \in SeqsUpTo(TitlePieces, MaxTitlePieces) }

\* pages with and without a <title>, under a good and a refused status, bare
\* or with the meta tag, link and body of AcmePage
CompanyFetches ==
    { RaiseFetch(t_timeout), RaiseFetch(t_403Forbidden) }
    \cup { Page(status, title, rest.metas, rest.links, rest.body) :
             status \in {200, 403},
             title \in {None} \cup { Some(t) : t \in Titles },
             rest \in { [metas |-> <<>>, links |-> <<>>, body |-> <<>>],
                        [metas |-> AcmePage.metas, links |-> AcmePage.links,
                         body |-> AcmePage.body] } }

MaxBodyPieces == 2

b_projects == <<" ","O","u","r"," ","p","r","o","j","e","c","t","s",":"," ","a","n"," ","a","p","p","."," ","A"," ","t","o","o","l","."," ","A"," ","w","e","b","s","i","t","e","."," ","A"," ","s","y","s","t","e","m",".">>
b_portfolio == <<" ","P","o","r","t","f","o","l","i","o",":"," ","a"," ","p","l","a","t","f","o","r","m",".">>
b_we_use == <<" ","W","e"," ","u","s","e"," ","P","y","t","h","o","n",".">>
b_built_with == <<" ","B","u","i","l","t"," ","w","i","t","h"," ","P","y","t","h","o","n"," ","a","n","d"," ","R","e","a","c","t",".">>
b_trusted_by == <<" ","T","r","u","s","t","e","d"," ","b","y"," ","A","c","m","e"," ","C","o","r","p"," ","a","n","d"," ","G","l","o","b","e","x",".">>

BodyPieces == {b_projects, b_portfolio, b_we_use, b_built_with, b_trusted_by}

\* page texts: up to MaxBodyPieces passages, each opening with an indicator
\* phrase, one after the other
Bodies == { Flatten(ps) : ps \in SeqsUpTo(BodyPieces, MaxBodyPieces) }

\* pages that answer 200 under the title of AcmePage with each of the texts
TextFetches == { Page(200, Some(t_AcmeHome), <<>>, <<>>, b) : b \in Bodies }

CompanyCalls ==
    { [fn |-> "analyze_company", url |-> t_https_acme, fetch |-> f] :
        f \in CompanyFetches \cup TextFetches }

LinePool == {l_1Short, l_Hello, l_2Medium, l_Longer, l_v10, l_MEDIUM, <<>>}

\* model responses of up to MaxLines lines, and a failed model call
CoverReplies ==
    { RaiseReply(t_down) }
    \cup { ContentReply(Join(ls, <<NL>>)) : ls \in SeqsUpTo(LinePool, MaxLines) }

CoverCalls ==
    { [fn |-> "generate_cover_letter", reply |-> r] : r \in CoverReplies }

\* a key with its value, or nothing when the key is absent
Field(k, v) == IF v = None THEN <<>> ELSE <<Pair(k, v[1])>>

NameValues == { None, Some(JNull), Some(JStr(<<>>)), Some(JStr(t_JaneDoe)),
                Some(JNum(t_1)) }

SkillValues ==
    { None, Some(JNull), Some(JStr(t_Go)), Some(JObj(<< Pair(K.name, JNull) >>)) }
    \cup { Some(JList(items)) : items \in SeqsUpTo({JStr(t_Go), JNum(t_1)}, MaxItems) }

EducationValues ==
    { None, Some(JNull), Some(JStr(<<>>)), Some(JStr(t_Go)),
      Some(JObj(<< Pair(K.degree, JStr(t_BSc)) >>)) }
    \cup { Some(JList(items)) :
             items \in SeqsUpTo({JObj(<< Pair(K.degree, JStr(t_BSc)) >>), JStr(t_Go)},
                                MaxItems) }

\* what the model may answer to the CV prompt: JSON objects with each shape
\* of name, technical_skills and education, JSON that is not an object, text
\* that is not JSON, and a failed call
CvReplies ==
    { RaiseReply(t_down), TextReply(t_NameBob), TextReply(t_hi), TextReply(s_NAME) }
    \cup { JsonReply(j) : j \in {JList(<<>>), JStr(t_Go), JNull, JNum(t_1)} }
    \cup { JsonReply(JObj(Field(K.name, n) \o Field(K.technical_skills, s)
                            \o Field(K.education, e))) :
             n \in NameValues, s \in SkillValues, e \in EducationValues }

CvFile == File(t_n_txt, TRUE, <<t_Al>>)

CvCalls == { [fn |-> "upload_cv", file |-> CvFile, reply |-> r] : r \in CvReplies }

MaxUrlPieces == 2

t_ftp == <<"f","t","p",":","/","/">>
t_HTTPS == <<"H","T","T","P","S",":","/","/">>
t_www == <<"w","w","w",".">>

UrlPieces == {s_https, s_http, t_ftp, t_HTTPS, t_www, t_acme}

\* company_url values: up to MaxUrlPieces pieces set side by side
Urls == { Flatten(ps) : ps \in SeqsUpTo(UrlPieces, MaxUrlPieces) }

\* /generate requests for each URL, the outside going well
GenerateCalls ==
    { [fn |-> "generate_application",
       request |-> [company_url |-> u, position_title |-> None, user_notes |-> None],
       env |-> Env(AcmePage, ContentReply(t_letter), ContentReply(t_Hey), TRUE)] :
        u \in Urls }

MaxNamePieces == 3

t_Co_dot == <<"C","o",".">>
t_slash == <<" ","/"," ">>
t_pipe == <<"|"," ">>

NamePieces == {t_Acme, t_slash, t_Co_dot, <<" ">>, <<"-">>, <<"_">>, t_pipe, t_1}

\* company names: up to MaxNamePieces pieces set side by side
CompanyNames == { Flatten(ps) : ps \in SeqsUpTo(NamePieces, MaxNamePieces) }

SaveCalls ==
    { [fn |-> "save_application", company_info |-> [company_name |-> n]] :
        n \in CompanyNames }

InitCalls ==
    /\ cv_data = None
    /\ cv_file_path = None
    /\ reading = {}
    /\ last_request = [endpoint |-> "none"]
    /\ response = NoResponse
    /\ output_dir = {}
    /\ last_change = [op |-> "none"]
    /\ call \in CompanyCalls \cup CoverCalls \cup CvCalls \cup GenerateCalls
                \cup SaveCalls
    /\ ret = None

\* main.py:209-351
CallAnalyzeCompany ==
    /\ ret = None
    /\ call.fn = "analyze_company"
    /\ ret' = Some(analyze_company(call.url, call.fetch))
    /\ UNCHANGED <<cv_data, cv_file_path, reading, last_request, response,
                   output_dir, last_change, call>>

\* main.py:353-438; the prompt's inputs do not reach the splitter
CallGenerateCoverLetter ==
    /\ ret = None
    /\ call.fn = "generate_cover_letter"
    /\ ret' = Some(generate_cover_letter(analyze_company(t_https_acme, AcmePage),
                                         None, None, None, s_Placeholder, call.reply))
    /\ UNCHANGED <<cv_data, cv_file_path, reading, last_request, response,
                   output_dir, last_change, call>>

\* main.py:543-581 on an empty slot, with analyze_cv (main.py:78-207) inside
CallUploadCv ==
    /\ ret = None
    /\ call.fn = "upload_cv"
    /\ ret' = Some(upload_cv(cv_data, cv_file_path, call.file, call.reply))
    /\ UNCHANGED <<cv_data, cv_file_path, reading, last_request, response,
                   output_dir, last_change, call>>

\* main.py:601-674 on an empty slot
CallGenerateApplication ==
    /\ ret = None
    /\ call.fn = "generate_application"
    /\ ret' = Some(generate_application(cv_data, call.request, call.env))
    /\ UNCHANGED <<cv_data, cv_file_path, reading, last_request, response,
                   output_dir, last_change, call>>

\* main.py:498-533 with a disk that takes the files
CallSaveApplication ==
    /\ ret = None
    /\ call.fn = "save_application"
    /\ ret' = Some(save_application(call.company_info,
                                   [short |-> l_Hello, medium |-> l_Longer],
                                   t_Hey, s_junior_developer, TRUE))
    /\ UNCHANGED <<cv_data, cv_file_path, reading, last_request, response,
                   output_dir, last_change, call>>

NextCalls ==
    \/ CallSaveApplication
    \/ CallAnalyzeCompany
    \/ CallGenerateCoverLetter
    \/ CallUploadCv
    \/ CallGenerateApplication

SpecCalls == InitCalls /\ [][NextCalls]_vars



(***************************************************************************)
(* Claims about the pure functions, checked under SpecCalls.               *)
(***************************************************************************)
\* sub occurs in s, letter for letter
Occurs(sub, s) ==
    \E i \in 0..(Len(s) - Len(sub)) : \A j \in 1..Len(sub) : s[i + j] = sub[j]

\* the lower-case word sub occurs in s in some letter case
OccursAnyCase(sub, s) ==
    \E i \in 0..(Len(s) - Len(sub)) :
        \A j \in 1..Len(sub) : Lower(<<s[i + j]>>) = <<sub[j]>>

ProfileKeys ==
    {"company_name", "description", "about_url", "main_url", "analysis_summary",
     "clients", "technologies", "projects"}

CompanyReturned == call.fn = "analyze_company" /\ ret # None

\* C6: analyze_company never raises: for every fetch outcome (an exception,
\* a page with or without title, meta tags, links and text) it returns a
\* record that is either an error record (exactly the field "error", with a
\* message) or a profile (exactly the eight profile fields), never both.
C6_ProfileOrError ==
    CompanyReturned =>
        /\ "raised" \notin DOMAIN ret[1]
        /\ \/ DOMAIN ret[1] = {"error"} /\ ret[1].error.text # ""
           \/ DOMAIN ret[1] = ProfileKeys

\* C6 witness: the fetch raised and an error record came back
C6_Witness ==
    /\ CompanyReturned
    /\ call.fetch.kind = "raise"
    /\ DOMAIN ret[1] = {"error"}

\* C7: a page whose title text contains "403", or "forbidden" or "error" in
\* any letter case, gives an error record with the hint to use the main
\* company URL and no profile, whatever the HTTP status; a page whose title
\* has none of them (or that has no title) gives a profile.
C7_ErrorTitle ==
    (CompanyReturned /\ call.fetch.kind = "page") =>
        IF /\ call.fetch.title # None
           /\ \/ Occurs(s_403, call.fetch.title[1])
              \/ OccursAnyCase(s_forbidden, call.fetch.title[1])
              \/ OccursAnyCase(s_error, call.fetch.title[1])
        THEN /\ DOMAIN ret[1] = {"error"}
             /\ ret[1].error.text = "Could not access company website: {}. Try using the main company URL instead of specific pages."
             /\ ret[1].error.arg = call.fetch.title[1]
        ELSE DOMAIN ret[1] = ProfileKeys

\* C7 witness: status 200, a title with "Forbidden" in mixed case and no
\* "403", and an error record
C7_Witness ==
    /\ CompanyReturned
    /\ call.fetch.kind = "page" /\ call.fetch.status = 200
    /\ call.fetch.title = Some(t_Acme \o t_Forbidden)
    /\ DOMAIN ret[1] = {"error"}


CoverReturned ==
    call.fn = "generate_cover_letter" /\ ret # None /\ call.reply.kind = "content"

\* the lines of the model response of the pending call
ResponseLines == Split(call.reply.content, NL)

\* the scan of C8 as worded: "1." counts as a header only at the start of a
\* line, "2." anywhere
RECURSIVE ScanAsWorded(_, _)
ScanAsWorded(lines, n) ==
    IF n = 0 THEN [current |-> "short", short |-> <<>>, medium |-> <<>>]
    ELSE LET st == ScanAsWorded(lines, n - 1)
             line == lines[n]
         IN  IF \/ OccursAnyCase(s_short, line)
                \/ Len(line) >= 2 /\ line[1] = "1" /\ line[2] = "."
             THEN [st EXCEPT !.current = "short"]
             ELSE IF OccursAnyCase(s_medium, line) \/ Occurs(s_2dot, line)
             THEN [st EXCEPT !.current = "medium"]
             ELSE [st EXCEPT ![st.current] = @ \o line \o <<NL>>]

\* C8: the splitter starts in section short; a line that contains "short" or
\* has the prefix "1." switches to short, a line that contains "medium" or
\* "2." switches to medium, and such lines are not appended; every other
\* line is appended with a newline to the current section, in input order.
\* The four example lines give short "Hello there.\n", medium "Longer text.\n".
C8_SplitterAsWorded ==
    CoverReturned =>
        /\ ret[1].short = ScanAsWorded(ResponseLines, Len(ResponseLines)).short
        /\ ret[1].medium = ScanAsWorded(ResponseLines, Len(ResponseLines)).medium
        /\ ResponseLines = <<l_1Short, l_Hello, l_2Medium, l_Longer>>
              => ret[1] = [short |-> l_Hello \o <<NL>>, medium |-> l_Longer \o <<NL>>]

\* what a line is: a short header when it has "short" in any letter case or
\* "1." anywhere; else a medium header when it has "medium" in any letter
\* case or "2." anywhere; else body
LineKind(line) ==
    IF OccursAnyCase(s_short, line) \/ Occurs(s_1dot, line) THEN "short"
    ELSE IF OccursAnyCase(s_medium, line) \/ Occurs(s_2dot, line) THEN "medium"
    ELSE "body"

\* the section line i falls in: that of the last header up to i, short when
\* there is none
SectionOf(lines, i) ==
    LET headers == { j \in 1..i : LineKind(lines[j]) # "body" }
    IN  IF headers = {} THEN "short"
        ELSE LineKind(lines[CHOOSE j \in headers : \A k \in headers : k <= j])

\* the body lines of one section, each with its newline, in input order
SectionText(lines, section) ==
    Flatten([i \in 1..Len(lines) |->
                IF LineKind(lines[i]) = "body" /\ SectionOf(lines, i) = section
                THEN lines[i] \o <<NL>> ELSE <<>>])

\* C8 as amended: as C8, but a line is a short header when it contains
\* "short" in any letter case or "1." anywhere in the line (not only as a
\* prefix), and otherwise a medium header when it contains "medium" in any
\* letter case or "2." anywhere.
C8_Splitter ==
    CoverReturned =>
        /\ DOMAIN ret[1] = {"short", "medium"}
        /\ ret[1].short = SectionText(ResponseLines, "short")
        /\ ret[1].medium = SectionText(ResponseLines, "medium")
        /\ ResponseLines = <<l_1Short, l_Hello, l_2Medium, l_Longer>>
              => ret[1] = [short |-> l_Hello \o <<NL>>, medium |-> l_Longer \o <<NL>>]

\* C8 witness: a stray "1." inside a line of the medium section sends the
\* next line to short
C8_Witness ==
    /\ CoverReturned
    /\ ResponseLines = <<l_2Medium, l_Longer, l_v10, l_Hello>>
    /\ ret[1] = [short |-> l_Hello \o <<NL>>, medium |-> l_Longer \o <<NL>>]


CvAnalyzed == call.fn = "upload_cv" /\ ret # None /\ ret[1].cv_data # None

\* the profile analyze_cv returned to the upload of the pending call
CvProfileOf == ret[1].cv_data[1]

\* the model answered with a JSON object
JsonObject(reply) == reply.kind = "json" /\ reply.value.t = "obj"

\* the JSON object carries a name: a non-empty string under "name"
CarriesName(d) ==
    \E i \in 1..Len(d.pairs) :
        /\ d.pairs[i].k = K.name
        /\ d.pairs[i].v.t = "str"
        /\ d.pairs[i].v.s # <<>>

\* the name is absent, null or empty
NoName(d) ==
    \A i \in 1..Len(d.pairs) :
        d.pairs[i].k = K.name => d.pairs[i].v \in {JNull, JStr(<<>>)}

\* C9: extracted_name is the parsed name when the response is a JSON object
\* carrying a name, and the placeholder "[Your Name]" when the response is
\* not JSON or is JSON whose name is absent, null or empty; it is never null
\* and never the empty string.
C9_NameOrPlaceholder ==
    CvAnalyzed =>
        /\ CvProfileOf.extracted_name.t = "str"
        /\ CvProfileOf.extracted_name.s # <<>>
        /\ (JsonObject(call.reply) /\ CarriesName(call.reply.value)
              /\ CvProfileOf.structured_data # None)
              => CvProfileOf.extracted_name = Get(call.reply.value, K.name, JNull)
        /\ (JsonObject(call.reply) /\ NoName(call.reply.value))
              => CvProfileOf.extracted_name = JStr(s_Placeholder)
        /\ call.reply.kind = "text"
              => CvProfileOf.extracted_name = JStr(s_Placeholder)

\* a field rendered as bullets is present and is not a list of records
NotRecords(d, k) ==
    \E i \in 1..Len(d.pairs) :
        /\ d.pairs[i].k = k
        /\ \/ d.pairs[i].v.t # "list"
           \/ \E n \in 1..Len(d.pairs[i].v.items) : d.pairs[i].v.items[n].t # "obj"

\* a field rendered comma-joined is present and is not a list
NotList(d, k) ==
    \E i \in 1..Len(d.pairs) : d.pairs[i].k = k /\ d.pairs[i].v.t # "list"

\* the profile of a failed analysis, for the text of CvFile
ErrorMarkerProfile ==
    [raw_text |-> t_Al, analysis |-> s_ErrorAnalyzingCV,
     extracted_name |-> JStr(s_Placeholder), structured_data |-> None]

UploadReturned == call.fn = "upload_cv" /\ ret # None

\* the upload succeeded and left profile p in the slot
UploadedWith(p) ==
    /\ ret[1].response.status = 200
    /\ ret[1].cv_data = Some(p)
    /\ ret[1].cv_file_path = Some(call.file.filename)

\* C10: analyze_cv never raises: when the model call fails, or the response
\* is JSON of an unexpected shape (not an object, or with fields that are not
\* lists or not records), it returns the profile with the input text, the
\* marker "Error analyzing CV", the placeholder name and no structured data;
\* the upload still succeeds and puts that profile in the slot.
C10_ErrorMarkerAsWorded ==
    UploadReturned =>
        /\ ret[1].response.status = 200 /\ ret[1].cv_data # None
        /\ (\/ call.reply.kind = "raise"
            \/ call.reply.kind = "json" /\ call.reply.value.t # "obj"
            \/ /\ JsonObject(call.reply)
               /\ \/ NotRecords(call.reply.value, K.education)
                  \/ NotRecords(call.reply.value, K.work_experience)
                  \/ NotRecords(call.reply.value, K.projects)
                  \/ NotList(call.reply.value, K.technical_skills)
                  \/ NotList(call.reply.value, K.languages)
                  \/ NotList(call.reply.value, K.soft_skills))
              => UploadedWith(ErrorMarkerProfile)

\* building the bullets of field k raises: the field is present and is null,
\* a number, a non-empty string, a non-empty object, or a list with an item
\* that is not an object
BulletsFail(d, k) ==
    \E i \in 1..Len(d.pairs) :
        /\ d.pairs[i].k = k
        /\ \/ d.pairs[i].v.t \in {"null", "num"}
           \/ d.pairs[i].v.t = "str" /\ d.pairs[i].v.s # <<>>
           \/ d.pairs[i].v.t = "obj" /\ d.pairs[i].v.pairs # <<>>
           \/ /\ d.pairs[i].v.t = "list"
              /\ \E n \in 1..Len(d.pairs[i].v.items) : d.pairs[i].v.items[n].t # "obj"

\* comma-joining field k raises: the field is present and is null, a number,
\* or a list with an item that is not a string
JoinFails(d, k) ==
    \E i \in 1..Len(d.pairs) :
        /\ d.pairs[i].k = k
        /\ \/ d.pairs[i].v.t \in {"null", "num"}
           \/ /\ d.pairs[i].v.t = "list"
              /\ \E n \in 1..Len(d.pairs[i].v.items) : d.pairs[i].v.items[n].t # "str"

\* the technologies of some project cannot be comma-joined
ProjectJoinFails(d) ==
    \E i \in 1..Len(d.pairs) :
        /\ d.pairs[i].k = K.projects
        /\ d.pairs[i].v.t = "list"
        /\ \E n \in 1..Len(d.pairs[i].v.items) :
              /\ d.pairs[i].v.items[n].t = "obj"
              /\ JoinFails(d.pairs[i].v.items[n], K.technologies)

\* the analysis fails: the call raised, the JSON is no object, or a field
\* cannot be rendered
AnalysisFails(reply) ==
    \/ reply.kind = "raise"
    \/ reply.kind = "json" /\ reply.value.t # "obj"
    \/ /\ JsonObject(reply)
       /\ \/ BulletsFail(reply.value, K.education)
          \/ BulletsFail(reply.value, K.work_experience)
          \/ BulletsFail(reply.value, K.projects)
          \/ ProjectJoinFails(reply.value)
          \/ JoinFails(reply.value, K.technical_skills)
          \/ JoinFails(reply.value, K.languages)
          \/ JoinFails(reply.value, K.soft_skills)

\* C10 as amended: analyze_cv never raises; it returns the error-marker
\* profile when the model call fails, when the response is JSON that is not
\* an object, or when rendering a field raises (a bulleted field that is
\* null, a number, a non-empty string or object, or a list with a non-object
\* item; a comma-joined field that is null, a number, or a list with a
\* non-string item).  A string or an object in place of a comma-joined list,
\* or an empty string or object in place of a bulleted list, does not fail:
\* the profile is built from the object as usual.  The upload succeeds and
\* fills the slot with the profile either way.
C10_ErrorMarker ==
    UploadReturned =>
        /\ AnalysisFails(call.reply) => UploadedWith(ErrorMarkerProfile)
        /\ (JsonObject(call.reply) /\ ~AnalysisFails(call.reply)) =>
              /\ ret[1].response.status = 200
              /\ ret[1].cv_data # None
              /\ ret[1].cv_data[1].raw_text = t_Al
              /\ ret[1].cv_data[1].structured_data = Some(call.reply.value)
              /\ ret[1].cv_data[1].analysis # s_ErrorAnalyzingCV
        /\ call.reply.kind = "text" =>
              /\ ret[1].response.status = 200
              /\ ret[1].cv_data # None
              /\ ret[1].cv_data[1].raw_text = t_Al

\* C10 witness: a null where the skills list belongs, the error-marker
\* profile in the slot and the upload answered 200
C10_Witness ==
    /\ UploadReturned
    /\ call.reply = JsonReply(JObj(<<Pair(K.name, JStr(t_JaneDoe)),
                                     Pair(K.technical_skills, JNull)>>))
    /\ UploadedWith(ErrorMarkerProfile)


GenerateReturned ==
    /\ call.fn = "generate_application" /\ ret # None
    /\ ret[1].response.status = 200

\* the URL the company analysis was given: the "Website:" line of its summary
FetchedUrl == ret[1].response.body.company_analysis[2].value

\* url starts with a scheme: letters, then "://"
HasScheme(url) ==
    \E n \in 1..Len(url) :
        /\ \A i \in 1..n : IsLetter(url[i])
        /\ Len(url) >= n + 3
        /\ SubSeq(url, n + 1, n + 3) = <<":", "/", "/">>

\* C11: /generate normalizes company_url before the fetch: a URL with no
\* scheme gets exactly one "https://" in front ("acme.com" becomes
\* "https://acme.com"), a URL that has a scheme is fetched unchanged, and
\* normalizing the normalized URL changes nothing.
C11_UrlNormalized ==
    GenerateReturned =>
        /\ ~HasScheme(call.request.company_url)
              => FetchedUrl = <<"h","t","t","p","s",":","/","/">> \o call.request.company_url
        /\ HasScheme(call.request.company_url)
              => FetchedUrl = call.request.company_url
        /\ call.request.company_url = t_acme => FetchedUrl = t_https_acme
        /\ NormalizeUrl(FetchedUrl) = FetchedUrl


SaveReturned == call.fn = "save_application" /\ ret # None

\* a letter, a digit or the underscore
WordCharacter(c) ==
    \/ c \in {"0", "1", "2", "3", "4", "5", "6", "7", "8", "9", "_"}
    \/ Lower(<<c>>) # <<c>>
    \/ \E u \in {"A", "B", "C", "D", "E", "F", "G", "H", "I", "J", "K", "L", "M",
                 "N", "O", "P", "Q", "R", "S", "T", "U", "V", "W", "X", "Y", "Z"} :
          Lower(<<u>>) = <<c>>

Separator(c) == c \in {" ", "\t", "\n", "-"}

\* the positions of name, in order, whose character survives the first pass
RECURSIVE KeptPositions(_, _)
KeptPositions(name, n) ==
    IF n = 0 THEN <<>>
    ELSE IF WordCharacter(name[n]) \/ Separator(name[n])
    THEN Append(KeptPositions(name, n - 1), n)
    ELSE KeptPositions(name, n - 1)

\* name with each run of separators (among the surviving characters) as one
\* underscore: a separator counts only when it ends its run
Collapsed(name) ==
    LET ks == KeptPositions(name, Len(name))
    IN  Flatten([i \in 1..Len(ks) |->
            IF WordCharacter(name[ks[i]]) THEN <<name[ks[i]]>>
            ELSE IF i = Len(ks) \/ ~Separator(name[ks[i + 1]]) THEN <<"_">>
            ELSE <<>>])

\* s from its first to its last character that is no underscore
Trimmed(s) ==
    LET body == { i \in 1..Len(s) : s[i] # "_" }
    IN  IF body = {} THEN <<>>
        ELSE SubSeq(s, CHOOSE i \in body : \A j \in body : i <= j,
                       CHOOSE i \in body : \A j \in body : j <= i)

\* C12: the sanitized company name in the directory name has only word
\* characters (no slash, pipe, dot, space or hyphen), has each run of
\* whitespace and hyphens as a single underscore, neither starts nor ends
\* with an underscore, is "Acme_Co" for "Acme / Co.", and is left unchanged
\* by sanitizing it again.
C12_Sanitized ==
    SaveReturned =>
        /\ \A i \in 1..Len(ret[1].dir) : WordCharacter(ret[1].dir[i])
        /\ \A i \in 1..Len(ret[1].dir) : ret[1].dir[i] \notin {"/", "|", ".", " ", "-"}
        /\ ret[1].dir = Trimmed(Collapsed(call.company_info.company_name))
        /\ ret[1].dir # <<>> => ret[1].dir[1] # "_" /\ ret[1].dir[Len(ret[1].dir)] # "_"
        /\ call.company_info.company_name = t_Acme \o t_slash \o t_Co_dot
              => ret[1].dir = <<"A","c","m","e","_","C","o">>
        /\ clean_company_name(ret[1].dir) = ret[1].dir

\* C12 witness: "Acme / Co." gave "Acme_Co"
C12_Witness ==
    /\ SaveReturned
    /\ call.company_info.company_name = <<"A","c","m","e"," ","/"," ","C","o",".">>
    /\ ret[1].dir = <<"A","c","m","e","_","C","o">>


ProfileReturned == CompanyReturned /\ "error" \notin DOMAIN ret[1]

\* C13: in every profile analyze_company returns, whichever indicator
\* phrases the page text has and however many, clients has at most 5
\* entries, projects has at most 3 sentences, and technologies has no entry
\* twice.
C13_ListsCapped ==
    ProfileReturned =>
        /\ Len(ret[1].clients) <= 5
        /\ Len(ret[1].projects) <= 3
        /\ \A i, j \in 1..Len(ret[1].technologies) :
              ret[1].technologies[i] = ret[1].technologies[j] => i = j


(***************************************************************************)
(* C14.  The handlers are coroutines on one event loop.  upload_cv         *)
(* suspends only at "await file.read()" (main.py:552), before it touches   *)
(* the slot; get_cv_status, remove_cv and generate_application hold no     *)
(* await.  Under Spec, whose UploadRead/UploadResume split is that one     *)
(* suspension point, every state is one another request can observe.       *)
(***************************************************************************)
\* the slot is empty in both variables or filled in both
SlotPaired == (cv_data = None) <=> (cv_file_path = None)

\* a filled slot holds the analysis and the filename of one upload
SlotFromOneUpload ==
    cv_data # None =>
        /\ last_change.op = "upload"
        /\ cv_file_path = Some(last_change.file.filename)
        /\ cv_data = Some(analyze_cv(ExtractText(last_change.file),
                                     last_change.reply))

\* no /cv-status answer pairs has_cv with the wrong filename
StatusPaired ==
    last_request.endpoint = "cv-status" =>
        (response.body.has_cv <=> response.body.filename # JNull)

\* one /generate request read one slot value: the name and the CV context
\* it prompted with, and the cv_used it answered, all come from the slot
\* as it stood when the request ran
GenerateReadOneSlot ==
    (last_request.endpoint = "generate" /\ last_request.prompted # None) =>
        /\ last_request.prompted[1].cv_info = cv_data
        /\ last_request.prompted[1].cover_name = ApplicantName(cv_data)
        /\ last_request.prompted[1].linkedin_name
               \in {None, Some(ApplicantName(cv_data))}
        /\ response.status = 200 => response.body.cv_used = (cv_data # None)

====
